---- MODULE Spec2Model ----
(***************************************************************************)
(* The interactive session of rustgresql (src/src/main.rs): startup, the   *)
(* render / read / dispatch loop, the AppState selection operations and    *)
(* the two gateway calls (fetch_tables, execute_query).                    *)
(*                                                                         *)
(* Strings are sequences of tokens: the query buffer is a sequence of      *)
(* one-character strings, a formatted message is the sequence of its       *)
(* format pieces.  Option<usize> is a sequence of length at most one:      *)
(* None is <<>>, Some(i) is <<i>>.                                         *)
(***************************************************************************)
EXTENDS Integers, Sequences, FiniteSets, TLC

VARIABLES
    pc,                 \* position of main
    exit,               \* how main ended: "running", "ok", "error", "panic"
    raw_mode,           \* the terminal is in raw mode
    overflow_checks,    \* the build: TRUE traps usize overflow (debug), FALSE wraps
    key,                \* the event returned by the last event::read()
    db_name,            \* the db_name of the gateway call being awaited
    reply,              \* the gateway's answer to that call, until it is consumed
    tables_db,          \* history: the db_name whose fetch_tables filled tables
    frame,              \* the last frame terminal.draw put on the screen
    tasks,              \* spawned connection-driving tasks that are still running
    databases,
    selected_database,
    tables,
    selected_table,
    query,
    query_result,
    active_pane

vars == <<pc, exit, raw_mode, overflow_checks, key, db_name, reply, tables_db, frame,
          tasks, databases, selected_database, tables, selected_table, query,
          query_result, active_pane>>

app_state == <<databases, selected_database, tables, selected_table, query,
               query_result, active_pane>>

-----------------------------------------------------------------------------
(* Bounds of the model *)

MaxDbs == 2
MaxTables == 2
MaxRows == 1
MaxQuery == 2
MaxSel == 1
MaxTasks == 1

(* usize::MAX, the value 0usize - 1 wraps to.  It stands above every index *)
(* the model reaches; TLC's integers are narrower than usize.              *)
UsizeMax == 2147483647

-----------------------------------------------------------------------------
(* Values *)

None == <<>>
Some(i) == <<i>>
IsSome(o) == o # <<>>
Unwrap(o) == o[1]

ActivePane == {"Databases", "Tables", "Main", "QueryInput"}

DbNames == <<"app", "app_test", "shop", "logs">>
TableNames == <<"users", "orders", "items", "carts">>
Errors == {"timeout", "syntax"}
RowValues == {<<"1">>, <<"x">>}

(* What the gateway can answer *)
DatabaseLists == {SubSeq(DbNames, 1, n) : n \in 0..MaxDbs}
TableLists == {SubSeq(TableNames, 1, n) : n \in 0..MaxTables}
RowLists == UNION {[1..n -> RowValues] : n \in 0..MaxRows}

Ok(v) == [ok |-> TRUE, val |-> v, err |-> ""]
Err(e) == [ok |-> FALSE, val |-> <<>>, err |-> e]
NoReply == [ok |-> FALSE, val |-> <<>>, err |-> ""]
NoDb == ""

(* Events event::read() can return *)
CharKey(c, m) == [kind |-> "Key", code |-> "Char", ch |-> c, mods |-> m]
NamedKey(code, m) == [kind |-> "Key", code |-> code, ch |-> "", mods |-> m]
NoEvent == [kind |-> "None", code |-> "", ch |-> "", mods |-> "NONE"]
Resize == [kind |-> "Resize", code |-> "", ch |-> "", mods |-> "NONE"]
Events ==
    {CharKey(c, "NONE") : c \in {"j", "k", "q", "a"}}
        \cup {CharKey(c, "CONTROL") : c \in {"h", "j", "k", "l", "a"}}
        \cup {CharKey("q", "SHIFT")}
        \cup {NamedKey(code, "NONE") : code \in {"Backspace", "Enter"}}
        \cup {Resize}

-----------------------------------------------------------------------------
(* usize arithmetic *)

WrappingSub(a, b) == IF a >= b THEN a - b ELSE (UsizeMax - (b - a)) + 1
SubOverflows(a, b) == a < b

-----------------------------------------------------------------------------
(* AppState *)

(* next_database / next_table: the new selection *)
next_index(selected, len) ==
    IF IsSome(selected) /\ Unwrap(selected) < WrappingSub(len, 1)
        THEN Some(Unwrap(selected) + 1)
        ELSE selected

(* next_database / next_table: len() - 1 traps in a build with overflow checks *)
next_panics(selected, len) ==
    overflow_checks /\ IsSome(selected) /\ SubOverflows(len, 1)

(* previous_database / previous_table *)
previous_index(selected) ==
    IF IsSome(selected) /\ Unwrap(selected) > 0
        THEN Some(Unwrap(selected) - 1)
        ELSE selected

next_database(selected, dbs) == next_index(selected, Len(dbs))
previous_database(selected) == previous_index(selected)
next_table(selected, tbls) == next_index(selected, Len(tbls))
previous_table(selected) == previous_index(selected)

(* set_tables: the new (tables, selected_table) *)
set_tables(new_tables) == <<new_tables, Some(0)>>

(* databases[selected]: indexing out of range panics *)
IndexPanics(selected, dbs) == Unwrap(selected) >= Len(dbs)
DbAt(selected, dbs) == dbs[Unwrap(selected) + 1]

(* query.pop() as it would be clearing the buffer *)
pop_Clear(q) == <<>>

(* query.push(c), query.pop() *)
push(q, c) == Append(q, c)
pop(q) == IF q = <<>> THEN q ELSE SubSeq(q, 1, Len(q) - 1)

(* format!("Error: {}", err) *)
FormatError(e) == <<"Error: ", e>>
(* format!("Executed query successfully. Rows returned: {}", rows.len()) *)
FormatOk(rs) == <<"Executed query successfully. Rows returned: ", ToString(Len(rs))>>

(* execute_query as it would be with the row count left out of the message *)
execute_query_NoCount(answer) ==
    IF answer.ok THEN Ok(<<"Executed query successfully.">>) ELSE Err(answer.err)

(* execute_query: the Result it returns for the gateway's answer *)
execute_query(answer) ==
    IF answer.ok THEN Ok(FormatOk(answer.val)) ELSE Err(answer.err)

(* The Enter arm's match as it would be storing the error without a prefix *)
StoreResult_BareError(result) ==
    IF result.ok THEN result.val ELSE <<result.err>>

(* the Enter arm's match on the result *)
StoreResult(result) ==
    IF result.ok THEN result.val ELSE FormatError(result.err)

-----------------------------------------------------------------------------
(* The key dispatch match: the first arm, top to bottom, that matches *)

(* The match as it would be with the query editor's arms moved above the   *)
(* focus chords                                                            *)
MatchArm_EditorFirst(ev, pane) ==
    CASE ev.kind # "Key" -> "none"
      [] ev.code = "Char" /\ pane = "QueryInput" -> "char"
      [] ev.code = "Backspace" /\ pane = "QueryInput" -> "backspace"
      [] ev.code = "Enter" /\ pane = "QueryInput" -> "enter"
      [] ev.code = "Char" /\ ev.ch = "h" /\ ev.mods = "CONTROL" -> "ctrl_h"
      [] ev.code = "Char" /\ ev.ch = "j" /\ ev.mods = "CONTROL" -> "ctrl_j"
      [] ev.code = "Char" /\ ev.ch = "k" /\ ev.mods = "CONTROL" -> "ctrl_k"
      [] ev.code = "Char" /\ ev.ch = "l" /\ ev.mods = "CONTROL" -> "ctrl_l"
      [] ev.code = "Char" /\ ev.ch = "j" /\ ev.mods = "NONE" -> "nav_j"
      [] ev.code = "Char" /\ ev.ch = "k" /\ ev.mods = "NONE" -> "nav_k"
      [] ev.code = "Char" /\ ev.ch = "q" -> "quit"
      [] OTHER -> "other"

(* The match as it would be with the quit arm tied to the database list *)
MatchArm_QuitInDatabases(ev, pane) ==
    CASE ev.kind # "Key" -> "none"
      [] ev.code = "Char" /\ ev.ch = "h" /\ ev.mods = "CONTROL" -> "ctrl_h"
      [] ev.code = "Char" /\ ev.ch = "j" /\ ev.mods = "CONTROL" -> "ctrl_j"
      [] ev.code = "Char" /\ ev.ch = "k" /\ ev.mods = "CONTROL" -> "ctrl_k"
      [] ev.code = "Char" /\ ev.ch = "l" /\ ev.mods = "CONTROL" -> "ctrl_l"
      [] ev.code = "Char" /\ ev.ch = "j" /\ ev.mods = "NONE" -> "nav_j"
      [] ev.code = "Char" /\ ev.ch = "k" /\ ev.mods = "NONE" -> "nav_k"
      [] ev.code = "Char" /\ pane = "QueryInput" -> "char"
      [] ev.code = "Backspace" /\ pane = "QueryInput" -> "backspace"
      [] ev.code = "Enter" /\ pane = "QueryInput" -> "enter"
      [] ev.code = "Char" /\ ev.ch = "q" /\ pane = "Databases" -> "quit"
      [] OTHER -> "other"

(* The match as it would be with the Enter arm's guard left out *)
MatchArm_EnterAnywhere(ev, pane) ==
    CASE ev.kind # "Key" -> "none"
      [] ev.code = "Char" /\ ev.ch = "h" /\ ev.mods = "CONTROL" -> "ctrl_h"
      [] ev.code = "Char" /\ ev.ch = "j" /\ ev.mods = "CONTROL" -> "ctrl_j"
      [] ev.code = "Char" /\ ev.ch = "k" /\ ev.mods = "CONTROL" -> "ctrl_k"
      [] ev.code = "Char" /\ ev.ch = "l" /\ ev.mods = "CONTROL" -> "ctrl_l"
      [] ev.code = "Char" /\ ev.ch = "j" /\ ev.mods = "NONE" -> "nav_j"
      [] ev.code = "Char" /\ ev.ch = "k" /\ ev.mods = "NONE" -> "nav_k"
      [] ev.code = "Char" /\ pane = "QueryInput" -> "char"
      [] ev.code = "Backspace" /\ pane = "QueryInput" -> "backspace"
      [] ev.code = "Enter" -> "enter"
      [] ev.code = "Char" /\ ev.ch = "q" -> "quit"
      [] OTHER -> "other"

MatchArm(ev, pane) ==
    CASE ev.kind # "Key" -> "none"
      [] ev.code = "Char" /\ ev.ch = "h" /\ ev.mods = "CONTROL" -> "ctrl_h"
      [] ev.code = "Char" /\ ev.ch = "j" /\ ev.mods = "CONTROL" -> "ctrl_j"
      [] ev.code = "Char" /\ ev.ch = "k" /\ ev.mods = "CONTROL" -> "ctrl_k"
      [] ev.code = "Char" /\ ev.ch = "l" /\ ev.mods = "CONTROL" -> "ctrl_l"
      [] ev.code = "Char" /\ ev.ch = "j" /\ ev.mods = "NONE" -> "nav_j"
      [] ev.code = "Char" /\ ev.ch = "k" /\ ev.mods = "NONE" -> "nav_k"
      [] ev.code = "Char" /\ pane = "QueryInput" -> "char"
      [] ev.code = "Backspace" /\ pane = "QueryInput" -> "backspace"
      [] ev.code = "Enter" /\ pane = "QueryInput" -> "enter"
      [] ev.code = "Char" /\ ev.ch = "q" -> "quit"
      [] OTHER -> "other"

FocusOf(arm) ==
    CASE arm = "ctrl_h" -> "Databases"
      [] arm = "ctrl_j" -> "Tables"
      [] arm = "ctrl_k" -> "Main"
      [] arm = "ctrl_l" -> "QueryInput"

-----------------------------------------------------------------------------
(* The closure given to terminal.draw: the four widgets it renders from    *)
(* the AppState (lines 156-225).  main_area is a titled block with no       *)
(* content.                                                                 *)
Frame(dbs, sel_db, tbls, sel_tbl, q, qr, pane) ==
    [db_sidebar |-> [items |-> dbs, selected |-> sel_db,
                     highlighted |-> (pane = "Databases")],
     table_sidebar |-> [items |-> tbls, selected |-> sel_tbl,
                        highlighted |-> (pane = "Tables")],
     main_area |-> [title |-> "Results", highlighted |-> (pane = "Main")],
     query_input |-> [text |-> q, highlighted |-> (pane = "QueryInput")]]

(* The screen before the first draw *)
NoFrame ==
    [db_sidebar |-> [items |-> <<>>, selected |-> None, highlighted |-> FALSE],
     table_sidebar |-> [items |-> <<>>, selected |-> None, highlighted |-> FALSE],
     main_area |-> [title |-> "", highlighted |-> FALSE],
     query_input |-> [text |-> <<>>, highlighted |-> FALSE]]

-----------------------------------------------------------------------------
(* main as it would be with enable_raw_mode moved to its first line *)
Init_RawModeFirst ==
    /\ pc = "list_databases"
    /\ exit = "running"
    /\ raw_mode = TRUE
    /\ overflow_checks \in BOOLEAN
    /\ frame = NoFrame
    /\ tasks = 0
    /\ key = NoEvent
    /\ db_name = NoDb
    /\ reply = NoReply
    /\ tables_db = NoDb
    /\ databases = <<>>
    /\ selected_database = None
    /\ tables = <<>>
    /\ selected_table = None
    /\ query = <<>>
    /\ query_result = <<>>
    /\ active_pane = "Databases"

Init ==
    /\ pc = "list_databases"
    /\ exit = "running"
    /\ raw_mode = FALSE
    /\ overflow_checks \in BOOLEAN
    /\ frame = NoFrame
    /\ tasks = 0
    /\ key = NoEvent
    /\ db_name = NoDb
    /\ reply = NoReply
    /\ tables_db = NoDb
    /\ databases = <<>>
    /\ selected_database = None
    /\ tables = <<>>
    /\ selected_table = None
    /\ query = <<>>
    /\ query_result = <<>>
    /\ active_pane = "Databases"

(* main returns Err (a ? fired) or unwinds from a panic: nothing after it runs *)
Abort(how) ==
    /\ pc' = "exited"
    /\ exit' = how

(* What fetch_tables can return: connect or query fails, or the table names *)
FetchOutcomes == {Ok(t) : t \in TableLists} \cup {Err(e) : e \in Errors}
(* What connect + client.query can return inside execute_query *)
QueryOutcomes == {Ok(r) : r \in RowLists} \cup {Err(e) : e \in Errors}

(* What connect + the database listing can return at startup *)
ListOutcomes == {Ok(d) : d \in DatabaseLists} \cup {Err(e) : e \in Errors}

Awaiting == {"list_databases", "await_initial_tables", "await_tables", "await_query"}

(* main, lines 101-115: connection string, connect and database listing   *)
(* return; ? or AppState::new                                              *)
ListDatabases ==
    /\ pc = "list_databases"
    /\ reply # NoReply
    /\ IF reply.ok
            THEN /\ databases' = reply.val
                 /\ selected_database' = Some(0)
                 /\ tables' = <<>>
                 /\ selected_table' = Some(0)
                 /\ query' = <<>>
                 /\ query_result' = <<>>
                 /\ active_pane' = "Databases"
                 /\ pc' = "initial_fetch"
                 /\ UNCHANGED exit
            ELSE /\ Abort("error")
                 /\ UNCHANGED app_state
    /\ reply' = NoReply
    /\ UNCHANGED <<raw_mode, overflow_checks, tasks, frame, key, db_name, tables_db>>

(* main, lines 118-120: index databases and call fetch_tables *)
InitialFetch ==
    /\ pc = "initial_fetch"
    /\ IF IsSome(selected_database)
        THEN IF IndexPanics(selected_database, databases)
                THEN Abort("panic") /\ UNCHANGED db_name
                ELSE /\ db_name' = DbAt(selected_database, databases)
                     /\ pc' = "await_initial_tables"
                     /\ UNCHANGED exit
        ELSE pc' = "enable_raw_mode" /\ UNCHANGED <<exit, db_name>>
    /\ UNCHANGED <<raw_mode, overflow_checks, tasks, frame, key, reply, tables_db, app_state>>

(* The gateway answers the call main is suspended on (lines 103-111 for   *)
(* the database listing, 298-310 for fetch_tables, 312-321 for             *)
(* execute_query)                                                          *)
GatewayAnswers ==
    /\ pc \in Awaiting
    /\ reply = NoReply
    /\ reply' \in CASE pc = "list_databases" -> ListOutcomes
                    [] pc = "await_query" -> QueryOutcomes
                    [] OTHER -> FetchOutcomes
    /\ UNCHANGED <<pc, exit, raw_mode, overflow_checks, frame, key, db_name, tables_db,
                   app_state>>

(* The answer as main sees it: the spawned tasks are left out *)
GatewayReply ==
    /\ GatewayAnswers
    /\ UNCHANGED tasks

(* The answer with the task the call spawned once connect had succeeded   *)
(* (lines 104, 301, 315); the model has at most MaxTasks of them running   *)
GatewayReplySpawning ==
    /\ GatewayAnswers
    /\ \E connected \in BOOLEAN :
        /\ reply'.ok => connected
        /\ connected => tasks < MaxTasks
        /\ tasks' = IF connected THEN tasks + 1 ELSE tasks

(* fetch_tables(db_name).await? ; app_state.set_tables(tables) *)
TablesReturned(next_pc) ==
    /\ reply # NoReply
    /\ IF reply.ok
        THEN /\ tables' = set_tables(reply.val)[1]
             /\ selected_table' = set_tables(reply.val)[2]
             /\ tables_db' = db_name
             /\ pc' = next_pc
             /\ UNCHANGED exit
        ELSE /\ Abort("error")
             /\ UNCHANGED <<tables, selected_table, tables_db>>
    /\ reply' = NoReply
    /\ db_name' = NoDb
    /\ UNCHANGED <<raw_mode, overflow_checks, tasks, frame, key, databases, selected_database,
                   query, query_result, active_pane>>

(* main, lines 120-121 *)
InitialFetchReturn ==
    /\ pc = "await_initial_tables"
    /\ TablesReturned("enable_raw_mode")

(* main, lines 125-128: enable_raw_mode()?, Terminal::new(backend)? *)
EnableRawMode ==
    /\ pc = "enable_raw_mode"
    /\ \E outcome \in {"ok", "enable_fails", "terminal_fails"} :
        /\ raw_mode' = (outcome # "enable_fails")
        /\ IF outcome = "ok"
            THEN pc' = "draw" /\ UNCHANGED exit
            ELSE Abort("error")
    /\ UNCHANGED <<overflow_checks, tasks, frame, key, db_name, reply, tables_db, app_state>>

(* main, lines 131-226: the top of the loop, terminal.draw(...)?.  The key *)
(* of the previous iteration is out of scope.                              *)
Draw ==
    /\ pc = "draw"
    /\ \E drawn \in BOOLEAN :
        IF drawn
            THEN /\ frame' = Frame(databases, selected_database, tables,
                                   selected_table, query, query_result, active_pane)
                 /\ pc' = "read"
                 /\ UNCHANGED exit
            ELSE Abort("error") /\ UNCHANGED frame
    /\ key' = NoEvent
    /\ UNCHANGED <<raw_mode, overflow_checks, tasks, db_name, reply, tables_db,
                   app_state>>

(* The events the model lets event::read() deliver: the query buffer and  *)
(* an out-of-range table selection stay within the bounds.                *)
Deliverable(ev) ==
    /\ MatchArm(ev, active_pane) = "char" => Len(query) < MaxQuery
    /\ (MatchArm(ev, active_pane) = "nav_j" /\ active_pane = "Tables")
        => Unwrap(selected_table) < Len(tables) + MaxSel

(* main, line 229: event::read()? *)
Read ==
    /\ pc = "read"
    /\ \/ \E ev \in Events :
            /\ Deliverable(ev)
            /\ key' = ev
            /\ pc' = "dispatch"
            /\ UNCHANGED exit
       \/ Abort("error") /\ UNCHANGED key
    /\ UNCHANGED <<raw_mode, overflow_checks, tasks, frame, db_name, reply, tables_db, app_state>>

(* The j / k arms as they would be without the refetch *)
Refetch_Skipped(sel) ==
    pc' = "draw" /\ UNCHANGED <<exit, db_name>>

(* main, lines 249-251 and 261-263: after the selection moved, index      *)
(* databases and call fetch_tables                                         *)
Refetch(sel) ==
    IF IsSome(sel)
        THEN IF IndexPanics(sel, databases)
                THEN Abort("panic") /\ UNCHANGED db_name
                ELSE /\ db_name' = DbAt(sel, databases)
                     /\ pc' = "await_tables"
                     /\ UNCHANGED exit
        ELSE pc' = "draw" /\ UNCHANGED <<exit, db_name>>

(* The j / k arms as they would be with the table list refetched after a   *)
(* move in the table list too                                              *)
Navigate_TablesRefetch(arm) ==
    IF active_pane = "Databases"
        THEN IF arm = "nav_j" /\ next_panics(selected_database, Len(databases))
                THEN Abort("panic") /\ UNCHANGED <<db_name, app_state>>
                ELSE LET sel == IF arm = "nav_j"
                                   THEN next_database(selected_database, databases)
                                   ELSE previous_database(selected_database)
                     IN /\ selected_database' = sel
                        /\ Refetch(sel)
                        /\ UNCHANGED <<databases, tables, selected_table, query,
                                       query_result, active_pane>>
    ELSE IF active_pane = "Tables"
        THEN IF arm = "nav_j" /\ next_panics(selected_table, Len(tables))
                THEN Abort("panic") /\ UNCHANGED <<db_name, app_state>>
                ELSE /\ selected_table' = IF arm = "nav_j"
                                            THEN next_table(selected_table, tables)
                                            ELSE previous_table(selected_table)
                     /\ Refetch(selected_database)
                     /\ UNCHANGED <<databases, selected_database,
                                    tables, query, query_result, active_pane>>
    ELSE pc' = "draw" /\ UNCHANGED <<exit, db_name, app_state>>

(* main, lines 246-269: the j / k arms *)
Navigate(arm) ==
    IF active_pane = "Databases"
        THEN IF arm = "nav_j" /\ next_panics(selected_database, Len(databases))
                THEN Abort("panic") /\ UNCHANGED <<db_name, app_state>>
                ELSE LET sel == IF arm = "nav_j"
                                   THEN next_database(selected_database, databases)
                                   ELSE previous_database(selected_database)
                     IN /\ selected_database' = sel
                        /\ Refetch(sel)
                        /\ UNCHANGED <<databases, tables, selected_table, query,
                                       query_result, active_pane>>
    ELSE IF active_pane = "Tables"
        THEN IF arm = "nav_j" /\ next_panics(selected_table, Len(tables))
                THEN Abort("panic") /\ UNCHANGED <<db_name, app_state>>
                ELSE /\ selected_table' = IF arm = "nav_j"
                                            THEN next_table(selected_table, tables)
                                            ELSE previous_table(selected_table)
                     /\ pc' = "draw"
                     /\ UNCHANGED <<exit, db_name, databases, selected_database,
                                    tables, query, query_result, active_pane>>
    ELSE pc' = "draw" /\ UNCHANGED <<exit, db_name, app_state>>

(* main, lines 277-280: the Enter arm up to the call of execute_query *)
Enter ==
    IF IsSome(selected_database)
        THEN IF IndexPanics(selected_database, databases)
                THEN Abort("panic") /\ UNCHANGED <<db_name, app_state>>
                ELSE /\ db_name' = DbAt(selected_database, databases)
                     /\ pc' = "await_query"
                     /\ UNCHANGED <<exit, app_state>>
        ELSE pc' = "draw" /\ UNCHANGED <<exit, db_name, app_state>>

(* main, lines 229-291: the match on the event read *)
Dispatch ==
    /\ pc = "dispatch"
    /\ LET arm == MatchArm(key, active_pane) IN
        CASE arm \in {"ctrl_h", "ctrl_j", "ctrl_k", "ctrl_l"} ->
                /\ active_pane' = FocusOf(arm)
                /\ pc' = "draw"
                /\ UNCHANGED <<exit, db_name, databases, selected_database, tables,
                               selected_table, query, query_result>>
          [] arm \in {"nav_j", "nav_k"} -> Navigate(arm)
          [] arm = "char" ->
                /\ query' = push(query, key.ch)
                /\ pc' = "draw"
                /\ UNCHANGED <<exit, db_name, databases, selected_database, tables,
                               selected_table, query_result, active_pane>>
          [] arm = "backspace" ->
                /\ query' = pop(query)
                /\ pc' = "draw"
                /\ UNCHANGED <<exit, db_name, databases, selected_database, tables,
                               selected_table, query_result, active_pane>>
          [] arm = "enter" -> Enter
          [] arm = "quit" ->
                /\ pc' = "disable_raw_mode"
                /\ UNCHANGED <<exit, db_name, app_state>>
          [] OTHER ->
                /\ pc' = "draw"
                /\ UNCHANGED <<exit, db_name, app_state>>
    /\ UNCHANGED <<raw_mode, overflow_checks, tasks, frame, key, reply, tables_db>>

(* main, lines 251-252 and 263-264 *)
FetchReturn ==
    /\ pc = "await_tables"
    /\ TablesReturned("draw")

(* main, lines 280-284: execute_query returns and the result is stored *)
QueryReturn ==
    /\ pc = "await_query"
    /\ reply # NoReply
    /\ query_result' = StoreResult(execute_query(reply))
    /\ reply' = NoReply
    /\ db_name' = NoDb
    /\ pc' = "draw"
    /\ UNCHANGED <<exit, raw_mode, overflow_checks, tasks, frame, key, tables_db, databases,
                   selected_database, tables, selected_table, query, active_pane>>

(* main, lines 294-295: disable_raw_mode()?; Ok(()) *)
DisableRawMode ==
    /\ pc = "disable_raw_mode"
    /\ \E restored \in BOOLEAN :
        IF restored
            THEN raw_mode' = FALSE /\ pc' = "exited" /\ exit' = "ok"
            ELSE Abort("error") /\ UNCHANGED raw_mode
    /\ UNCHANGED <<overflow_checks, tasks, frame, key, db_name, reply, tables_db, app_state>>

(* The task as it would be if its closure shared the AppState and stored  *)
(* the connection error for display                                        *)
ConnectionTask_StoresError ==
    /\ tasks > 0
    /\ tasks' = tasks - 1
    /\ query_result' = FormatError("connection")
    /\ UNCHANGED <<pc, exit, raw_mode, overflow_checks, frame, key, db_name, reply,
                   tables_db, databases, selected_database, tables, selected_table,
                   query, active_pane>>

(* The task spawned at lines 104-108, 301-305, 315-319: connection.await  *)
(* completes, with an eprintln! when it ended in an error.  The closure    *)
(* owns the connection and nothing else.                                   *)
ConnectionTask ==
    /\ tasks > 0
    /\ tasks' = tasks - 1
    /\ UNCHANGED <<pc, exit, raw_mode, overflow_checks, frame, key, db_name, reply,
                   tables_db, app_state>>

(* The steps of main other than the gateway's answers *)
MainStep ==
    \/ ListDatabases
    \/ InitialFetch
    \/ InitialFetchReturn
    \/ EnableRawMode
    \/ Draw
    \/ Read
    \/ Dispatch
    \/ FetchReturn
    \/ QueryReturn
    \/ DisableRawMode

(* main alone *)
Next ==
    \/ MainStep
    \/ GatewayReply

Spec == Init /\ [][Next]_vars

(* main and the connection tasks it spawns *)
NextTasks ==
    \/ MainStep
    \/ GatewayReplySpawning
    \/ ConnectionTask

SpecTasks == Init /\ [][NextTasks]_vars

-----------------------------------------------------------------------------
(* Properties *)

Range(f) == {f[i] : i \in DOMAIN f}
InRange(selected, len) == IsSome(selected) /\ Unwrap(selected) \in 0..(len - 1)
LoopPcs == {"draw", "read", "dispatch", "await_tables", "await_query",
            "disable_raw_mode"}
Dispatching(arms) == pc = "dispatch" /\ MatchArm(key, active_pane) \in arms
IsCharKey(ev, m) == ev.kind = "Key" /\ ev.code = "Char" /\ ev.mods = m
GatewayFailed(at) == pc \in at /\ reply # NoReply /\ ~reply.ok
GatewaySucceeded(at) == pc \in at /\ reply # NoReply /\ reply.ok

(* C1: while the query editor has focus, every unmodified character key   *)
(* (j, k and q included) is appended to the query buffer, the focus stays *)
(* and the loop goes on to the next frame.                                 *)
C1_EditorCapturesEveryChar ==
    [][(pc = "dispatch" /\ active_pane = "QueryInput" /\ IsCharKey(key, "NONE"))
        => /\ query' = Append(query, key.ch)
           /\ active_pane' = active_pane
           /\ pc' = "draw"]_vars

(* C2: at every render step selected_table is Some(i) only with           *)
(* 0 <= i < len(tables), and it is None when tables is empty.              *)
C2_SelectedTableInRange ==
    pc = "draw" =>
        /\ IsSome(selected_table) => InRange(selected_table, Len(tables))
        /\ tables = <<>> => selected_table = None

(* C3: in every session state selected_database is Some(i) only with      *)
(* 0 <= i < len(databases), it is None when databases is empty, and no     *)
(* operation indexes databases out of range (no panic).                    *)
C3_SelectedDatabaseInRange ==
    /\ IsSome(selected_database) => InRange(selected_database, Len(databases))
    /\ databases = <<>> => selected_database = None
    /\ exit # "panic"

(* C4: a next / previous key in a list pane never underflows, keeps an    *)
(* in-range index in range, moves it by at most one, and leaves it         *)
(* unchanged at the last index (next) and at index 0 (previous).           *)
C4_Clamped(arm, sel, sel_after, len) ==
    /\ InRange(sel, len) => InRange(sel_after, len)
    /\ IsSome(sel) = IsSome(sel_after)
    /\ IsSome(sel) =>
        IF arm = "nav_j"
            THEN /\ Unwrap(sel_after) \in {Unwrap(sel), Unwrap(sel) + 1}
                 /\ Unwrap(sel) >= len - 1 => sel_after = sel
            ELSE /\ Unwrap(sel_after) \in {Unwrap(sel), Unwrap(sel) - 1}
                 /\ Unwrap(sel) = 0 => sel_after = sel

C4_NavigationClamps ==
    [][(Dispatching({"nav_j", "nav_k"}) /\ active_pane \in {"Databases", "Tables"})
        => /\ exit' # "panic"
           /\ LET arm == MatchArm(key, active_pane) IN
               IF active_pane = "Databases"
                 THEN C4_Clamped(arm, selected_database, selected_database',
                                 Len(databases))
                 ELSE C4_Clamped(arm, selected_table, selected_table',
                                 Len(tables))]_vars

(* C5: a gateway error inside the loop (table refetch or query) never     *)
(* ends the session: the loop goes on to the next frame with the error     *)
(* text in query_result.                                                   *)
C5_GatewayErrorsAreShown ==
    [][GatewayFailed({"await_tables", "await_query"})
        => /\ pc' = "draw"
           /\ exit' = "running"
           /\ reply.err \in Range(query_result')]_vars

(* C6: whenever the loop ends, by the quit key or by an error from        *)
(* drawing, reading or a gateway call, the terminal is out of raw mode.    *)
C6_RawModeRestored ==
    [][(pc \in LoopPcs /\ pc' = "exited") => ~raw_mode']_vars

(* C7: at every render step tables is the list the gateway returned for   *)
(* the selected database: each returned list wholly replaces tables and    *)
(* puts the selection on its first element, and no frame is drawn with     *)
(* tables fetched for another database than the selected one.              *)
C7_TablesFollowSelection ==
    /\ [](pc = "draw" =>
            /\ InRange(selected_database, Len(databases))
            /\ tables_db = DbAt(selected_database, databases))
    /\ [][GatewaySucceeded({"await_tables"})
            => /\ tables' = reply.val
               /\ reply.val # <<>> => selected_table' = Some(0)
               /\ tables_db' = DbAt(selected_database, databases)
               /\ pc' = "draw"]_vars

(* C7 witness: the frame after "next" moved the selection to the second   *)
(* database shows the tables fetched for it                                *)
C7_Witness ==
    /\ pc = "draw"
    /\ key = CharKey("j", "NONE")
    /\ active_pane = "Databases"
    /\ selected_database = Some(1)
    /\ tables_db = DbNames[2]
    /\ tables = SubSeq(TableNames, 1, 2)
    /\ selected_table = Some(0)

(* C8: when the refetch after a database switch fails, tables becomes     *)
(* empty with no selection, selected_database keeps its new value and the  *)
(* error text is stored in query_result.                                   *)
C8_FailedRefetchClearsTables ==
    [][GatewayFailed({"await_tables"})
        => /\ tables' = <<>>
           /\ selected_table' = None
           /\ selected_database' = selected_database
           /\ reply.err \in Range(query_result')]_vars

(* C9: Ctrl+h, Ctrl+j, Ctrl+k, Ctrl+l each set the focus to their own     *)
(* pane from every focus and change nothing else: no selection moves, no   *)
(* gateway call, no edit of the buffer, no quit.                           *)
C9_Target(ch) ==
    CASE ch = "h" -> "Databases"
      [] ch = "j" -> "Tables"
      [] ch = "k" -> "Main"
      [] ch = "l" -> "QueryInput"

C9_FocusChords ==
    [][(pc = "dispatch" /\ IsCharKey(key, "CONTROL") /\ key.ch \in {"h", "j", "k", "l"})
        => /\ active_pane' = C9_Target(key.ch)
           /\ pc' = "draw"
           /\ UNCHANGED <<databases, selected_database, tables, selected_table,
                          query, query_result, db_name, reply, tables_db, exit,
                          raw_mode>>]_vars

(* C9 witness: Ctrl+k has moved the focus to the result view with text    *)
(* typed in the editor and the second database selected, both kept         *)
C9_Witness ==
    /\ pc = "draw"
    /\ key = CharKey("k", "CONTROL")
    /\ active_pane = "Main"
    /\ query = <<"q", "a">>
    /\ selected_database = Some(1)

(* The tabular result of the specification: the cells of the rows, row by *)
(* row                                                                     *)
RECURSIVE Tabular(_)
Tabular(rs) == IF rs = <<>> THEN <<>> ELSE Head(rs) \o Tabular(Tail(rs))

C11_QueryErrorIsStored ==
    [][/\ (Dispatching({"enter"}) \/ pc = "await_query")
            => UNCHANGED <<active_pane, query, databases, selected_database,
                           tables, selected_table>>
       /\ GatewayFailed({"await_query"})
            => /\ query_result' = <<"Error: ", reply.err>>
               /\ \A r \in RowLists :
                    Head(query_result') # Head(StoreResult(execute_query(Ok(r))))
               /\ pc' = "draw"]_vars

(* C11 witness: the frame after Enter in the editor with the gateway timing *)
(* out                                                                       *)
C11_Witness ==
    /\ pc = "draw"
    /\ key = NamedKey("Enter", "NONE")
    /\ active_pane = "QueryInput"
    /\ query = <<"q", "a">>
    /\ query_result = <<"Error: ", "timeout">>

(* The values query_result can take *)
ResultTexts ==
    {<<>>} \cup {FormatOk(r) : r \in RowLists} \cup {FormatError(e) : e \in Errors}

(* C12: the frame on the screen shows query_result: a session state that   *)
(* differs from the one drawn only in query_result (empty, a result or an   *)
(* error text) composes a different frame.                                  *)
C12_FrameShowsResult ==
    pc = "read" =>
        \A r \in ResultTexts \ {query_result} :
            Frame(databases, selected_database, tables, selected_table, query,
                  r, active_pane) # frame

(* C13: the key q ends the loop from every state whose focus is the        *)
(* database list, the table list or the result view, whatever the           *)
(* selections, the buffer and the result are, and changes none of them.     *)
C13_QuitOutsideEditor ==
    [][(pc = "dispatch" /\ key.kind = "Key" /\ key.code = "Char" /\ key.ch = "q"
            /\ active_pane \in {"Databases", "Tables", "Main"})
        => /\ pc' = "disable_raw_mode"
           /\ UNCHANGED app_state]_vars

(* C13 witness: main has returned Ok after q in the table list, with a     *)
(* query typed, a result stored and the second table selected               *)
C13_Witness ==
    /\ pc = "exited"
    /\ exit = "ok"
    /\ key = CharKey("q", "NONE")
    /\ active_pane = "Tables"
    /\ selected_table = Some(1)
    /\ query # <<>>
    /\ query_result # <<>>

(* C14: in the query editor, Backspace on an empty buffer leaves the whole *)
(* session state unchanged; a character key appends its character, and      *)
(* Backspace on a buffer that ends in an appended character c gives back    *)
(* exactly the buffer that preceded the append.                             *)
C14_PushPopRoundTrip ==
    [][/\ Dispatching({"backspace"})
            => /\ active_pane = "QueryInput"
               /\ query = <<>> => UNCHANGED app_state
               /\ query # <<>> => Append(query', query[Len(query)]) = query
               /\ UNCHANGED <<databases, selected_database, tables,
                              selected_table, query_result, active_pane>>
               /\ pc' = "draw"
       /\ Dispatching({"char"})
            => /\ active_pane = "QueryInput"
               /\ query' = Append(query, key.ch)]_vars

(* C14 witness: the frame after Backspace took the second character off a  *)
(* two-character buffer                                                     *)
C14_Witness ==
    /\ pc = "draw"
    /\ key = NamedKey("Backspace", "NONE")
    /\ active_pane = "QueryInput"
    /\ query = <<"a">>
    /\ frame.query_input.text = <<"a", "q">>

(* C15: when the database listing or the initial table fetch fails, main   *)
(* ends with the error, never enters the loop, and the terminal has not     *)
(* been put in raw mode at any point of the startup.                        *)
StartupPcs == {"list_databases", "initial_fetch", "await_initial_tables"}

C15_StartupFailureAborts ==
    [][/\ GatewayFailed({"list_databases", "await_initial_tables"})
            => /\ pc' = "exited"
               /\ exit' = "error"
               /\ ~raw_mode'
               /\ frame' = NoFrame
       /\ pc \in StartupPcs => ~raw_mode
       /\ pc = "exited" => pc' = "exited"]_vars

(* C15 witness: main has ended with an error, the databases listed but no  *)
(* table list ever stored: the initial fetch failed                         *)
C15_Witness ==
    /\ pc = "exited"
    /\ exit = "error"
    /\ databases = SubSeq(DbNames, 1, 2)
    /\ tables_db = NoDb
    /\ ~raw_mode
    /\ frame = NoFrame

(* C16: in the database list, next at the last database and previous at    *)
(* the first one leave selected_database unchanged, issue no gateway call   *)
(* and leave tables and selected_table unchanged.                           *)
C16_NoRefetchAtBoundary ==
    [][(/\ pc = "dispatch"
        /\ active_pane = "Databases"
        /\ InRange(selected_database, Len(databases))
        /\ \/ MatchArm(key, active_pane) = "nav_j"
                /\ Unwrap(selected_database) = Len(databases) - 1
           \/ MatchArm(key, active_pane) = "nav_k"
                /\ Unwrap(selected_database) = 0)
        => /\ pc' = "draw"
           /\ db_name' = NoDb
           /\ UNCHANGED <<selected_database, tables, selected_table>>]_vars

(* C17: with the focus on the table list, the next / previous keys change  *)
(* at most selected_table: they issue no gateway call and leave databases,  *)
(* selected_database, tables, query, query_result and the focus unchanged.  *)
C17_TableKeysMoveSelectionOnly ==
    [][(Dispatching({"nav_j", "nav_k"}) /\ active_pane = "Tables")
        => /\ pc' \notin Awaiting
           /\ db_name' = NoDb
           /\ reply' = NoReply
           /\ UNCHANGED <<databases, selected_database, tables, query,
                          query_result, active_pane>>]_vars

(* C17 witness: the frame after next moved the table selection to the      *)
(* second of two tables of the second database                              *)
C17_Witness ==
    /\ pc = "draw"
    /\ key = CharKey("j", "NONE")
    /\ active_pane = "Tables"
    /\ tables = SubSeq(TableNames, 1, 2)
    /\ selected_table = Some(1)
    /\ selected_database = Some(1)
    /\ frame.table_sidebar.selected = Some(0)

(* C18: at most one gateway call is outstanding at any time; while it is   *)
(* pending main reads no key event, draws no frame and issues no other      *)
(* call; a connection task that finishes changes nothing of main.           *)
C18_OneCallAndIdleWhilePending ==
    /\ [](pc \notin Awaiting => (db_name = NoDb /\ reply = NoReply))
    /\ [][/\ pc \in Awaiting
                => /\ key' = key
                   /\ frame' = frame
                   /\ db_name' \in {db_name, NoDb}
                   /\ reply = NoReply => UNCHANGED <<pc, app_state>>
          /\ tasks' < tasks
                => UNCHANGED <<pc, exit, raw_mode, frame, key, db_name, reply,
                               tables_db, app_state>>]_vars

(* C18 witness: the task of the pending execute_query has ended while main *)
(* is still suspended on the call, its answer not yet consumed              *)
C18_Witness ==
    /\ pc = "await_query"
    /\ reply # NoReply
    /\ reply.ok
    /\ tasks = 0
    /\ key = NamedKey("Enter", "NONE")
    /\ db_name = DbNames[2]
    /\ query # <<>>

(* C19: a key event that is no focus chord, not the quit key, no next /    *)
(* previous key in a list pane and no character, Backspace or Enter key in  *)
(* the query editor leaves the whole session state unchanged and issues no  *)
(* gateway call: Enter and Backspace outside the editor, next / previous in *)
(* the result view, the other character keys outside the editor.            *)
C19_Unbound(ev, pane) ==
    /\ ev.kind = "Key"
    /\ ~(ev.code = "Char" /\ ev.mods = "CONTROL" /\ ev.ch \in {"h", "j", "k", "l"})
    /\ ~(ev.code = "Char" /\ ev.ch = "q")
    /\ ~(ev.code = "Char" /\ ev.mods = "NONE" /\ ev.ch \in {"j", "k"}
            /\ pane \in {"Databases", "Tables"})
    /\ ~(pane = "QueryInput" /\ ev.code \in {"Char", "Backspace", "Enter"})

C19_OtherKeysDoNothing ==
    [][(pc = "dispatch" /\ C19_Unbound(key, active_pane))
        => /\ pc' = "draw"
           /\ UNCHANGED <<app_state, db_name, reply, tables_db, exit, raw_mode>>]_vars

(* C19 witness: the frame after Enter in the result view, with a query in  *)
(* the buffer and nothing executed                                          *)
C19_Witness ==
    /\ pc = "draw"
    /\ key = NamedKey("Enter", "NONE")
    /\ active_pane = "Main"
    /\ query # <<>>
    /\ query_result = <<>>

(* C20: the user is never trapped.  Wherever the loop waits for a key, a    *)
(* focus chord to one of the three other panes can be pressed; it is        *)
(* handled without a gateway call and leaves the focus outside the query    *)
(* editor; the next frame either is drawn with that focus or ends the loop; *)
(* and with the focus outside the editor the key q can be pressed and ends  *)
(* the loop, again without a gateway call: two key events at most.          *)
C20_LeavingChords == {CharKey(c, "CONTROL") : c \in {"h", "j", "k"}}
C20_Quit == CharKey("q", "NONE")
C20_CanPress(ev) == ENABLED (Read /\ key' = ev)

C20_NeverTrapped ==
    /\ [](pc = "read"
            => /\ \A ev \in C20_LeavingChords : C20_CanPress(ev)
               /\ active_pane # "QueryInput" => C20_CanPress(C20_Quit))
    /\ [][/\ (pc = "dispatch" /\ key \in C20_LeavingChords)
                => /\ pc' = "draw"
                   /\ active_pane' # "QueryInput"
                   /\ db_name' = NoDb
          /\ pc = "draw"
                => \/ pc' = "read" /\ active_pane' = active_pane
                   \/ pc' = "exited"
          /\ (pc = "dispatch" /\ key = C20_Quit /\ active_pane # "QueryInput")
                => /\ pc' = "disable_raw_mode"
                   /\ db_name' = NoDb]_vars

(* C20 witness: the loop has ended on q in the database list, reached by a *)
(* chord out of the query editor whose buffer is full                       *)
C20_Witness ==
    /\ pc = "disable_raw_mode"
    /\ key = C20_Quit
    /\ active_pane = "Databases"
    /\ Len(query) = MaxQuery
    /\ query_result = <<>>

====
